---- MODULE Spec2Model ----
(***************************************************************************)
(* Model of the pass tf-mark-ops-for-outside-compilation                   *)
(* (tensorflow/compiler/mlir/tensorflow/transforms/                        *)
(*  mark_ops_for_outside_compilation.cc).                                  *)
(*                                                                         *)
(* The module is a tree of operations 1..MaxOps numbered in document      *)
(* (pre-order) order; 0 is the module operation, the root.                 *)
(***************************************************************************)
EXTENDS Integers, Sequences, FiniteSets, TLC

\* ------------------------------------------------------------------ bounds
MaxOps == 4
MaxPreMarked == 2
MaxStringValues == 1
MaxStringUses == 1
MaxPatterns == 2
MaxRuns == 2

\* ------------------------------------------------------- names of the code
kXlaOutsideCompilationAttr == "auto"
NoAttr == "none"
ClusterOp == "tf_device.cluster"
IfRegionOp == "tf.IfRegion"
WhileRegionOp == "tf.WhileRegion"
YieldOp == "tf.Yield"
RecvTPUEmbeddingActivationsOp == "tf.RecvTPUEmbeddingActivations"
SendTPUEmbeddingGradientsOp == "tf.SendTPUEmbeddingGradients"
TfA == "tf.A"
TfB == "tf.B"
ForeignOp == "std.x"
NoRoot == "<no root kind>"
Garbage == "<indeterminate>"

Ops == 1..MaxOps
Module == 0

VARIABLES
  parent,          \* parent[op]: Operation::getParentOp(), Module for a top-level op
  name,            \* name[op]: Operation::getName()
  soft,            \* soft[op]: the allow_soft_placement BoolAttr: "true", "false", "absent"
  stringVals,      \* values of string element type: 0 a top-level block argument, d the result of op d
  operands,        \* operands[op]: the string-typed values among op's operands
  patterns,        \* the rewrite-pattern catalog: the root kind of each pattern, or NoRoot
  fallback_ops,    \* the kinds mhlo::IsOpAllowedTf2XlaFallback accepts
  tf_loaded,       \* getContext().getLoadedDialect("tf") is non-null
  attr,            \* attr[op]: the _xla_outside_compilation StringAttr, or NoAttr
  supported_ops,   \* llvm::DenseSet<OperationName> supported_ops
  pc,              \* position in runOnOperation
  cursor,          \* index of the next cluster of the current module.walk
  run,             \* number of the current invocation of the pass
  diagnostics,     \* errors emitted on the module
  pass_failed,     \* signalPassFailure() was called
  attr0,           \* history: attr before the first invocation
  attr_prev,       \* history: attr when the previous invocation returned
  walked,          \* history: clusters whose MarkUncompilableOps returned in this invocation
  pruned,          \* history: the clusters UnmarkChildren ran on in this invocation, in order
  attr_pre,        \* history: attr when the last UnmarkChildren started
  visited          \* operations the free-order pruner has visited

vars == <<parent, name, soft, stringVals, operands, patterns, fallback_ops, tf_loaded,
          attr, supported_ops, pc, cursor, run, diagnostics, pass_failed,
          attr0, attr_prev, walked, pruned, attr_pre, visited>>

static == <<parent, name, soft, stringVals, operands, patterns, fallback_ops, tf_loaded>>


\* -------------------------------------------------------- the operation tree
\* The operations that strictly enclose n in tree p, the module excluded:
\* the chain of Operation::getParentOp().
RECURSIVE AncestorsIn(_, _)
AncestorsIn(p, n) ==
  IF p[n] = Module THEN {} ELSE {p[n]} \cup AncestorsIn(p, p[n])

Ancestors(n) == AncestorsIn(parent, n)

\* The operations nested, at any depth, in the regions of n.
Descendants(n) == {m \in Ops : n \in Ancestors(m)}

Children(n) == {m \in Ops : parent[m] = n}

\* Block::walk / Operation::walk: every nested operation, post-order (an
\* operation after the operations of its regions), blocks in document order.
RECURSIVE WalkFrom(_)
WalkFrom(S) ==
  IF S = {} THEN <<>>
  ELSE LET c == CHOOSE x \in S : \A y \in S : x <= y
       IN WalkFrom(Children(c)) \o <<c>> \o WalkFrom(S \ {c})

Walk(n) == WalkFrom(Children(n))

\* module.walk([&](tf_device::ClusterOp cluster) ...): the clusters, in walk order.
IsCluster(op) == name[op] = ClusterOp
Clusters == SelectSeq(Walk(Module), IsCluster)

\* soft_placement_attr && soft_placement_attr.getValue()
AllowSoftPlacement(cluster) == soft[cluster] = "true"

\* ----------------------------------------------------------- supported set
AddSupportedControlFlowOps(supported) ==
  supported \cup {IfRegionOp, WhileRegionOp, YieldOp}

AddRewrittenEmbeddingOps(supported) ==
  supported \cup {RecvTPUEmbeddingActivationsOp, SendTPUEmbeddingGradientsOp}

\* What *pattern->getRootKind() can yield for the i-th pattern.  A pattern
\* without a root kind holds an empty Optional: dereferencing it is undefined,
\* so the build either aborts or inserts an indeterminate name, which may or
\* may not compare equal to the name of some operation.
AllKinds ==
  {ClusterOp, IfRegionOp, WhileRegionOp, YieldOp, RecvTPUEmbeddingActivationsOp,
   SendTPUEmbeddingGradientsOp, TfA, TfB, ForeignOp}

Abort == "<abort>"

RootKindOutcomes(i) ==
  IF patterns[i] # NoRoot THEN {patterns[i]}
  ELSE {Abort, Garbage} \cup AllKinds

\* for (auto& pattern : patterns) supported_ops.insert(*pattern->getRootKind());
\* with roots[i] the outcome of the i-th dereference.
InsertRootKinds(roots) == {roots[i] : i \in DOMAIN roots}

\* ------------------------------------------------------------- eligibility
\* Variant: the lookup never reports a missing dialect.
GetLoadedDialectAlways == "tf"

\* getContext().getLoadedDialect("tf")
GetLoadedDialect == IF tf_loaded THEN "tf" ELSE "null"

DialectOf(kind) ==
  IF kind = ClusterOp THEN "tf_device"
  ELSE IF kind = ForeignOp THEN "std"
  ELSE "tf"

HasStringOperand(op) == \E operand \in operands[op] : operand \in stringVals

HasStringResult(op) == op \in stringVals

MatchesPattern(op, supported) == name[op] \in supported

IsOpAllowedTf2XlaFallback(op) == name[op] \in fallback_ops

\* Variant: the string-type exclusion is left out.
IsSupportedOpNoString(op, supported, tf_dialect) ==
  IF DialectOf(name[op]) # tf_dialect THEN TRUE
  ELSE MatchesPattern(op, supported) \/ IsOpAllowedTf2XlaFallback(op)

IsSupportedOp(op, supported, tf_dialect) ==
  IF DialectOf(name[op]) # tf_dialect THEN TRUE
  ELSE /\ ~HasStringOperand(op)
       /\ ~HasStringResult(op)
       /\ (MatchesPattern(op, supported) \/ IsOpAllowedTf2XlaFallback(op))

\* The operation whose region holds value v (Value::getParentRegion()).
RegionOwner(v) == IF v = 0 THEN Module ELSE parent[v]

\* Variant: only the operations directly in the regions of op are inspected.
HasCapturedStringOperandDirect(op) ==
  \E user \in Children(op) : \E operand \in operands[user] :
     /\ RegionOwner(operand) \in Ancestors(op) \cup {Module}
     /\ operand \in stringVals

\* visitUsedValuesDefinedAbove(region, region, ...) over the regions of op:
\* the operands of nested operations whose region is a proper ancestor.
HasCapturedStringOperand(op) ==
  \E user \in Descendants(op) : \E operand \in operands[user] :
     /\ RegionOwner(operand) \in Ancestors(op) \cup {Module}
     /\ operand \in stringVals

\* ------------------------------------------------------------------ walker
\* The callback of MarkUncompilableOps on one operation.
MarkVisit(op, a, supported) ==
  LET a1 == IF ~IsSupportedOp(op, supported, GetLoadedDialect)
            THEN [a EXCEPT ![op] = kXlaOutsideCompilationAttr] ELSE a
  IN IF name[op] \in {IfRegionOp, WhileRegionOp} /\ HasCapturedStringOperand(op)
     THEN [a1 EXCEPT ![op] = kXlaOutsideCompilationAttr]
     ELSE a1

RECURSIVE MarkWalk(_, _, _)
MarkWalk(ops, a, supported) ==
  IF ops = <<>> THEN a
  ELSE MarkWalk(Tail(ops), MarkVisit(Head(ops), a, supported), supported)

\* MarkUncompilableOps(tf_dialect, &cluster.GetBody(), supported_ops)
MarkUncompilableOps(cluster, a, supported) == MarkWalk(Walk(cluster), a, supported)

\* ------------------------------------------------------------------ pruner
\* The while loop of UnmarkChildren: some operation on the parent chain of
\* iter_op, up to the module, carries the attribute.  The module operation
\* itself carries no attribute.
\* Variant: only the immediate parent is inspected.
RemoveAttrParentOnly(iter_op, a) ==
  parent[iter_op] # Module /\ a[parent[iter_op]] # NoAttr

\* Variant: the walk starts at the operation itself.
RemoveAttrFromSelf(iter_op, a) ==
  \E op \in {iter_op} \cup Ancestors(iter_op) : a[op] # NoAttr

\* Variant: the test is inverted.
RemoveAttrNegated(iter_op, a) ==
  \A op \in Ancestors(iter_op) : a[op] = NoAttr

RECURSIVE RemoveAttr(_, _)
RemoveAttr(iter_op, a) ==
  IF parent[iter_op] = Module THEN FALSE
  ELSE IF a[parent[iter_op]] # NoAttr THEN TRUE
  ELSE RemoveAttr(parent[iter_op], a)

\* The callback of UnmarkChildren on one operation.
UnmarkVisit(op, a) ==
  IF a[op] = NoAttr THEN a
  ELSE IF RemoveAttr(op, a) THEN [a EXCEPT ![op] = NoAttr]
  ELSE a

RECURSIVE UnmarkWalk(_, _)
UnmarkWalk(ops, a) ==
  IF ops = <<>> THEN a
  ELSE UnmarkWalk(Tail(ops), UnmarkVisit(Head(ops), a))

\* UnmarkChildren(&cluster.GetBody())
UnmarkChildren(cluster, a) == UnmarkWalk(Walk(cluster), a)


\* ----------------------------------------------------------------- actions
history == <<attr0, attr_prev>>

\* The end of a module.walk over the clusters: the next cluster, or the next
\* phase after the last one.
Advance(next_pc) ==
  IF cursor < Len(Clusters)
  THEN cursor' = cursor + 1 /\ pc' = pc
  ELSE cursor' = 1 /\ pc' = next_pc

\* runOnOperation, lines 155-159: the 'tf' dialect is not loaded.
DialectMissing ==
  /\ pc = "start"
  /\ GetLoadedDialect = "null"
  /\ diagnostics' = Append(diagnostics, "'tf' dialect is not registered")
  /\ pass_failed' = TRUE
  /\ pc' = "failed"
  /\ UNCHANGED <<static, attr, supported_ops, cursor, run, history, walked, pruned,
                 attr_pre, visited>>

\* runOnOperation, lines 160-172: the supported set is built.
PopulateSupportedOps ==
  /\ pc = "start"
  /\ GetLoadedDialect # "null"
  /\ \E roots \in [1..Len(patterns) -> AllKinds \cup {Abort, Garbage}] :
       /\ \A i \in 1..Len(patterns) : roots[i] \in RootKindOutcomes(i)
       /\ IF \E i \in 1..Len(patterns) : roots[i] = Abort
          THEN pc' = "crashed" /\ UNCHANGED <<supported_ops, cursor>>
          ELSE /\ supported_ops' =
                    AddRewrittenEmbeddingOps(
                      AddSupportedControlFlowOps(InsertRootKinds(roots)))
               /\ cursor' = 1
               /\ pc' = IF Clusters = <<>> THEN "done" ELSE "mark"
  /\ UNCHANGED <<static, attr, run, diagnostics, pass_failed, history, walked, pruned,
                 attr_pre, visited>>

\* First module.walk, lines 174-187: a cluster without allow_soft_placement.
WalkerSkipCluster ==
  /\ pc = "mark"
  /\ ~AllowSoftPlacement(Clusters[cursor])
  /\ Advance("unmark")
  /\ UNCHANGED <<static, attr, supported_ops, run, diagnostics, pass_failed, history,
                 walked, pruned, attr_pre, visited>>

\* First module.walk: MarkUncompilableOps on the body of a cluster.
WalkerMarkCluster ==
  /\ pc = "mark"
  /\ AllowSoftPlacement(Clusters[cursor])
  /\ attr' = MarkUncompilableOps(Clusters[cursor], attr, supported_ops)
  /\ walked' = walked \cup {Clusters[cursor]}
  /\ Advance("unmark")
  /\ UNCHANGED <<static, supported_ops, run, diagnostics, pass_failed, history,
                 pruned, attr_pre, visited>>

\* Second module.walk, lines 191-200: a cluster without allow_soft_placement.
PrunerSkipCluster ==
  /\ pc = "unmark"
  /\ ~AllowSoftPlacement(Clusters[cursor])
  /\ Advance("done")
  /\ UNCHANGED <<static, attr, supported_ops, run, diagnostics, pass_failed, history,
                 walked, pruned, attr_pre, visited>>

\* Second module.walk: UnmarkChildren on the body of a cluster.
PrunerUnmarkCluster ==
  /\ pc = "unmark"
  /\ AllowSoftPlacement(Clusters[cursor])
  /\ attr' = UnmarkChildren(Clusters[cursor], attr)
  /\ attr_pre' = attr
  /\ pruned' = Append(pruned, Clusters[cursor])
  /\ Advance("done")
  /\ UNCHANGED <<static, supported_ops, run, diagnostics, pass_failed, history,
                 walked, visited>>

\* The pass manager runs the pass again on the module the last run left.
RunAgain ==
  /\ pc = "done"
  /\ run < MaxRuns
  /\ run' = run + 1
  /\ pc' = "start"
  /\ attr_prev' = attr
  /\ supported_ops' = {}
  /\ cursor' = 1
  /\ walked' = {}
  /\ pruned' = <<>>
  /\ UNCHANGED <<static, attr, attr0, diagnostics, pass_failed, attr_pre, visited>>

\* UnmarkChildren with the operations of the body visited in any order: the
\* callback runs once on each operation of the body of cluster Clusters[cursor].
PruneVisitAnyOrder ==
  /\ pc = "prune"
  /\ \E op \in Descendants(Clusters[cursor]) \ visited :
       /\ attr' = UnmarkVisit(op, attr)
       /\ visited' = visited \cup {op}
  /\ UNCHANGED <<static, supported_ops, pc, cursor, run, diagnostics, pass_failed,
                 history, walked, pruned, attr_pre>>

Next ==
  \/ DialectMissing
  \/ PopulateSupportedOps
  \/ WalkerSkipCluster
  \/ WalkerMarkCluster
  \/ PrunerSkipCluster
  \/ PrunerUnmarkCluster
  \/ RunAgain


\* ------------------------------------------------------------------- inputs
\* The operation trees: parent[n] < n, and the operations are numbered in
\* document order, so the parent of n is n-1 or encloses n-1.
Trees ==
  {p \in {q \in [Ops -> 0..(MaxOps - 1)] : \A n \in Ops : q[n] < n} :
     \A n \in Ops \ {1} : p[n] \in {Module, n - 1} \cup AncestorsIn(p, n - 1)}

\* Kind and allow_soft_placement attribute of an operation of the module.
ClusterProfiles ==
  {<<ClusterOp, "true">>, <<ClusterOp, "false">>, <<ClusterOp, "absent">>}

Profiles == ClusterProfiles \cup {<<TfA, "absent">>, <<TfB, "absent">>}

TypedProfiles ==
  {<<ClusterOp, "true">>, <<ClusterOp, "false">>, <<IfRegionOp, "absent">>,
   <<WhileRegionOp, "absent">>, <<TfA, "absent">>}

\* Markers an earlier pass left on at most k operations.
PreMarks(k) ==
  {[op \in Ops |-> IF op \in S THEN "host" ELSE NoAttr] :
     S \in {T \in SUBSET Ops : Cardinality(T) <= k}}

\* Value v is visible at operation user: a top-level block argument, or the
\* result of an earlier operation of an enclosing block.
Visible(v, user) ==
  \/ v = 0
  \/ /\ v < user
     /\ parent[v] \in Ancestors(user) \cup {Module}
     /\ v \notin Ancestors(user)

ValidUses == {use \in Ops \X stringVals : Visible(use[2], use[1])}

\* The catalogs: each pattern declares a root kind or none.
Catalogs == UNION {[1..n -> {TfA, TfB, NoRoot}] : n \in 0..MaxPatterns}

InitTree(profiles) ==
  /\ parent \in Trees
  /\ \E profile \in [Ops -> profiles] :
       /\ name = [op \in Ops |-> profile[op][1]]
       /\ soft = [op \in Ops |-> profile[op][2]]

InitUntyped ==
  /\ stringVals = {}
  /\ operands = [op \in Ops |-> {}]

InitTyped ==
  /\ stringVals \in {S \in SUBSET (0..MaxOps) : Cardinality(S) <= MaxStringValues}
  /\ \E uses \in {U \in SUBSET ValidUses : Cardinality(U) <= MaxStringUses} :
       operands = [op \in Ops |-> {use[2] : use \in {u \in uses : u[1] = op}}]

InitRun ==
  /\ supported_ops = {}
  /\ run = 1
  /\ diagnostics = <<>>
  /\ pass_failed = FALSE
  /\ attr0 = attr
  /\ attr_prev = attr
  /\ walked = {}
  /\ pruned = <<>>
  /\ attr_pre = attr
  /\ visited = {}

\* Modules that differ in shape, kinds, cluster flags and earlier markers;
\* the catalog lowers tf.B and nothing lowers tf.A.
Init ==
  /\ InitTree(Profiles)
  /\ InitUntyped
  /\ patterns = <<TfB>>
  /\ fallback_ops = {}
  /\ tf_loaded \in BOOLEAN
  /\ attr \in PreMarks(MaxPreMarked)
  /\ pc = "start"
  /\ cursor = 1
  /\ InitRun

Spec == Init /\ [][Next]_vars

\* Modules that differ in shape, kinds and string-typed values; tf.A is
\* lowered by the catalog, accepted by the fallback, or neither.
InitTypes ==
  /\ InitTree(TypedProfiles)
  /\ InitTyped
  /\ \E config \in {<< <<>>, {} >>, << <<TfA>>, {} >>, << <<>>, {TfA} >>} :
       patterns = config[1] /\ fallback_ops = config[2]
  /\ tf_loaded = TRUE
  /\ attr = [op \in Ops |-> NoAttr]
  /\ pc = "start"
  /\ cursor = 1
  /\ InitRun

NextTypes ==
  \/ PopulateSupportedOps
  \/ WalkerSkipCluster
  \/ WalkerMarkCluster
  \/ PrunerSkipCluster
  \/ PrunerUnmarkCluster

SpecTypes == InitTypes /\ [][NextTypes]_vars

\* Catalogs of every form, for the construction of the supported set.
InitBuild ==
  /\ parent \in Trees
  /\ name \in [Ops -> {ClusterOp, TfA}]
  /\ soft = [op \in Ops |-> IF name[op] = ClusterOp THEN "true" ELSE "absent"]
  /\ InitUntyped
  /\ patterns \in Catalogs
  /\ fallback_ops = {}
  /\ tf_loaded \in BOOLEAN
  /\ attr = [op \in Ops |-> NoAttr]
  /\ pc = "start"
  /\ cursor = 1
  /\ InitRun

NextBuild == DialectMissing \/ PopulateSupportedOps

SpecBuild == InitBuild /\ [][NextBuild]_vars

\* Marked trees about to be pruned: UnmarkChildren on the body of a cluster
\* with allow_soft_placement, the operations visited in any order.
InitPrune ==
  /\ InitTree({<<ClusterOp, "true">>, <<ClusterOp, "false">>, <<TfA, "absent">>})
  /\ InitUntyped
  /\ patterns = <<>>
  /\ fallback_ops = {}
  /\ tf_loaded = TRUE
  /\ attr \in [Ops -> {NoAttr, kXlaOutsideCompilationAttr}]
  /\ pc = "prune"
  /\ InitRun
  /\ cursor \in {i \in 1..Len(Clusters) : AllowSoftPlacement(Clusters[i])}

NextPrune == PruneVisitAnyOrder

SpecPrune == InitPrune /\ [][NextPrune]_vars


\* ------------------------------------------------------------------- claims
Marked(a) == {op \in Ops : a[op] # NoAttr}

Gated == {c \in Ops : IsCluster(c) /\ AllowSoftPlacement(c)}

LastPruned == pruned[Len(pruned)]

TfOp(op) == DialectOf(name[op]) = "tf"

StringTyped(op) == op \in stringVals \/ operands[op] \cap stringVals # {}

\* Some operation nested in op uses a string value that is not defined in op.
UsesOuterString(op) ==
  \E user \in Descendants(op) : \E v \in operands[user] :
     v \in stringVals /\ v \notin Descendants(op)

NeedsMarker(op) ==
  \/ TfOp(op) /\ StringTyped(op)
  \/ TfOp(op) /\ name[op] \notin supported_ops /\ name[op] \notin fallback_ops
  \/ name[op] \in {IfRegionOp, WhileRegionOp} /\ UsesOuterString(op)

\* C1: after a full run, a marked operation in the body of a cluster with
\* allow_soft_placement has no marked strict ancestor in that body.
AncestorSubsumption ==
  pc = "done" =>
    \A c \in Gated : \A op \in Descendants(c) :
       attr[op] # NoAttr =>
         \A anc \in Ancestors(op) \cap Descendants(c) : attr[anc] = NoAttr

\* A run left the marker on an operation of the body and took it from an
\* unsupported operation two levels below it.
AncestorSubsumptionWitness ==
  /\ pc = "done"
  /\ \E c \in Gated : \E op \in Descendants(c) :
       \E anc \in Ancestors(op) \cap Descendants(c) :
          /\ parent[op] # anc
          /\ attr[parent[op]] = NoAttr
          /\ attr[anc] # NoAttr
          /\ ~IsSupportedOp(op, supported_ops, "tf")
          /\ attr[op] = NoAttr

\* C2: a full run neither adds nor removes a marker in the subtree of a
\* cluster whose allow_soft_placement is false or absent.
GatingInert ==
  pc = "done" =>
    \A c \in Ops : IsCluster(c) /\ ~AllowSoftPlacement(c) =>
       \A op \in Descendants(c) : (attr[op] = NoAttr) <=> (attr0[op] = NoAttr)

\* C3: a second run leaves the set of marked operations of the first run.
Idempotence ==
  (pc = "done" /\ run >= 2) => Marked(attr) = Marked(attr_prev)

\* The first run changed the markers, and the second run's pruner again
\* removed a marker its walker had set again.
IdempotenceWitness ==
  /\ pc = "done"
  /\ run = 2
  /\ Marked(attr_prev) # Marked(attr0)
  /\ \E op \in Ops : attr_pre[op] # NoAttr /\ attr[op] = NoAttr

\* C4: when the walker has finished on the body of a cluster with
\* allow_soft_placement, every 'tf' operation of the body with a string
\* operand or result carries the marker.
StringExclusion ==
  pruned = <<>> =>
    \A c \in walked : \A op \in Descendants(c) :
       (TfOp(op) /\ StringTyped(op)) => attr[op] # NoAttr

\* The walker marked a nested operation with a string operand whose kind is
\* in the supported set.
StringExclusionWitness ==
  /\ pruned = <<>>
  /\ \E c \in walked : \E op \in Descendants(c) :
       /\ parent[op] # c
       /\ operands[op] \cap stringVals # {}
       /\ name[op] \in supported_ops
       /\ attr[op] = kXlaOutsideCompilationAttr

\* C5: when the walker has finished on the body, every IfRegion or
\* WhileRegion of the body whose regions use, at any depth, a string value
\* defined outside it carries the marker.
CapturedValueOverride ==
  pruned = <<>> =>
    \A c \in walked : \A op \in Descendants(c) :
       (name[op] \in {IfRegionOp, WhileRegionOp} /\ UsesOuterString(op))
         => attr[op] # NoAttr

\* The walker marked a region operation of a supported kind, with no string
\* operand or result of its own, for a string value used two levels inside.
CapturedValueOverrideWitness ==
  /\ pruned = <<>>
  /\ \E c \in walked : \E op \in Descendants(c) :
       /\ name[op] \in {IfRegionOp, WhileRegionOp}
       /\ name[op] \in supported_ops
       /\ ~StringTyped(op)
       /\ \E user \in Descendants(op) : \E v \in operands[user] :
            v \in stringVals /\ v \notin Descendants(op) /\ parent[user] # op
       /\ \A user \in Children(op) : operands[user] = {}
       /\ attr[op] = kXlaOutsideCompilationAttr

\* C6: without the 'tf' dialect the pass emits the error, signals failure and
\* returns: the supported set is not built, no cluster is visited, and every
\* marker is what it was.
MissingDialectAbort ==
  (~tf_loaded /\ pc # "start") =>
    /\ pc = "failed"
    /\ pass_failed
    /\ diagnostics = <<"'tf' dialect is not registered">>
    /\ supported_ops = {}
    /\ walked = {}
    /\ pruned = <<>>
    /\ attr = attr0

\* The pass failed on a module in which a run would have marked an operation.
MissingDialectAbortWitness ==
  /\ pc = "failed"
  /\ \E c \in Gated : \E op \in Descendants(c) : name[op] = TfA /\ attr[op] = NoAttr

\* The result of pruning the body of c decided on the tree as it was.
SnapshotPrune(c, a0) ==
  [op \in Ops |->
     IF op \in Descendants(c) /\ a0[op] # NoAttr
        /\ \E anc \in Ancestors(op) : a0[anc] # NoAttr
     THEN NoAttr ELSE a0[op]]

\* C7: whatever the order in which the pruner visits the operations of the
\* body, the markers it leaves are those decided on the tree as it was when
\* it started, which are also those of the pruner's own walk order.
PrunerOrderIndependent ==
  (pc = "prune" /\ visited = Descendants(Clusters[cursor])) =>
    /\ attr = SnapshotPrune(Clusters[cursor], attr_pre)
    /\ attr = UnmarkChildren(Clusters[cursor], attr_pre)

\* The pruner has visited a body in which it removed the marker of an
\* operation and of the parent of that operation.
PrunerOrderIndependentWitness ==
  /\ pc = "prune"
  /\ visited = Descendants(Clusters[cursor])
  /\ \E op \in visited :
       /\ parent[op] \in visited
       /\ attr_pre[op] # NoAttr /\ attr[op] = NoAttr
       /\ attr_pre[parent[op]] # NoAttr /\ attr[parent[op]] = NoAttr

\* C8, as stated: the pruner adds no marker, removes one only under a marked
\* strict ancestor inside the same body, and keeps it otherwise.
PrunerStopsAtRegionBoundary ==
  pruned # <<>> =>
    \A op \in Ops :
       /\ attr_pre[op] = NoAttr => attr[op] = NoAttr
       /\ attr[op] # attr_pre[op] =>
            /\ op \in Descendants(LastPruned)
            /\ \E anc \in Ancestors(op) \cap Descendants(LastPruned) :
                 attr_pre[anc] # NoAttr
       /\ (\A anc \in Ancestors(op) \cap Descendants(LastPruned) :
             attr_pre[anc] = NoAttr) => attr[op] = attr_pre[op]

\* C8, amended: the pruner adds no marker, removes one only from an operation
\* of the body with a marked strict ancestor anywhere up to the module, and
\* keeps the marker of an operation with no marked strict ancestor.
PrunerRemovalCondition ==
  pruned # <<>> =>
    \A op \in Ops :
       /\ attr_pre[op] = NoAttr => attr[op] = NoAttr
       /\ attr[op] # attr_pre[op] =>
            /\ op \in Descendants(LastPruned)
            /\ \E anc \in Ancestors(op) : attr_pre[anc] # NoAttr
       /\ (\A anc \in Ancestors(op) : attr_pre[anc] = NoAttr)
            => attr[op] = attr_pre[op]

\* The pruner removed one marker under a marked ancestor and kept the marker
\* of an operation of the body that has no marked ancestor.
PrunerRemovalConditionWitness ==
  /\ pruned # <<>>
  /\ \E op \in Descendants(LastPruned) : attr_pre[op] # NoAttr /\ attr[op] = NoAttr
  /\ \E op \in Descendants(LastPruned) :
       /\ attr[op] # NoAttr
       /\ \A anc \in Ancestors(op) : attr_pre[anc] = NoAttr

FixedKinds ==
  {IfRegionOp, WhileRegionOp, YieldOp, RecvTPUEmbeddingActivationsOp,
   SendTPUEmbeddingGradientsOp}

\* C9: the supported set is the root kinds of the patterns that declare one
\* and the five fixed kinds; a pattern without a root kind is skipped and
\* causes no failure.
SupportedSetConstruction ==
  (tf_loaded /\ pc # "start") =>
    /\ pc # "crashed"
    /\ supported_ops =
         {patterns[i] : i \in {j \in DOMAIN patterns : patterns[j] # NoRoot}}
           \cup FixedKinds

\* C10: after a full run, every operation of the body of a cluster with
\* allow_soft_placement that needs the marker carries it or has a strict
\* ancestor that carries it.
CoveragePreserved ==
  pc = "done" =>
    \A c \in Gated : \A op \in Descendants(c) :
       NeedsMarker(op) =>
         \/ attr[op] # NoAttr
         \/ \E anc \in Ancestors(op) : attr[anc] # NoAttr

\* A run pruned the marker of a region operation that captures a string
\* value, under an ancestor that keeps its marker.
CoveragePreservedWitness ==
  /\ pc = "done"
  /\ \E c \in Gated : \E op \in Descendants(c) :
       /\ name[op] \in {IfRegionOp, WhileRegionOp}
       /\ UsesOuterString(op)
       /\ attr[op] = NoAttr
       /\ \E anc \in Ancestors(op) : attr[anc] # NoAttr

====
